---- MODULE Spec2Model ----
(***************************************************************************)
(* Soluna web client (soluna-ui/src/App.tsx) and the analysis engine it    *)
(* talks to over one WebSocket.                                            *)
(*                                                                         *)
(* The client part is translated from App.tsx: the file list, the debounce *)
(* timer of triggerAnalysis, the socket life cycle of connect(), the       *)
(* message listener, the derived view values and the label of a TreeNode.  *)
(* The engine (tokenize, parse, analyze) lives in the Python backend; it   *)
(* is modelled from the design document (sections 4 and 6).                *)
(*                                                                         *)
(* A text is a sequence of one-character strings.                          *)
(***************************************************************************)
EXTENDS Naturals, Sequences, FiniteSets, TLC

\* ------------------------------------------------------------------ bounds
MaxEdit == 1        \* longest text typed or uploaded in one step
MaxLen == 4         \* longest buffer the Tab key may produce
MaxFiles == 2       \* most files open at once
MaxClock == 2       \* distinct readings of Date.now() after the first
MaxInFlight == 2    \* most requests awaiting their response on one socket
MaxSource == 3      \* longest source text given to analyze
MaxPieces == 6      \* most lexical pieces in a source text given to parse
MaxCalls == 2       \* most calls of analyze on one connection
MaxCallPieces == 1  \* most lexical pieces in the text of one of these calls

\* --------------------------------------------------------------- constants
IndentWidth == 4    \* const indent = "    "
DebounceMs == 160   \* setTimeout(..., 160) in triggerAnalysis
ReconnectMs == 800  \* setTimeout(connect, 800) in the close listener

\* ------------------------------------------------------------------- texts
Chars == {" ", "a"}

RECURSIVE TextsOfLen(_)
TextsOfLen(n) ==
    IF n = 0 THEN {<<>>}
    ELSE {Append(t, c) : t \in TextsOfLen(n - 1), c \in Chars}

Texts == UNION {TextsOfLen(n) : n \in 0..MaxEdit}

\* String.prototype.trim() === "": only white space
IsBlank(code) == \A i \in 1..Len(code) : code[i] = " "

\* String.prototype.substring(from, to), 0-based, to exclusive
Substring(s, from, to) == SubSeq(s, from + 1, to)

Indent == [i \in 1..IndentWidth |-> " "]

\* ------------------------------------------------------------ wire format
\* An optional value: None when missing, Some(x) when present.
None == <<>>
Some(x) == <<x>>

LexErr(n) == [type |-> "UNKNOWN_CHAR", line |-> n]
ParseErr(n) == [type |-> "PARSER_ERROR", line |-> n]

\* WsMessage = {tokens?: Token[], errors?: LexerError[], parseTree?: ParseNode}
Message(toks, errs, tree) == [tokens |-> toks, errors |-> errs, parseTree |-> tree]

\* The response to an empty or white-space-only buffer (section 6).
EmptyResponse == Message(Some(<<>>), Some(<<>>), None)

\* Responses of the engine to a buffer with at least one visible character:
\* a clean program, a buffer with no declaration (a comment), a lexical error,
\* a recovered syntax error and a buffer with errors of both phases.
AnalysisResponses ==
    { Message(Some(<<"KAI", "ID", "SEMI">>), Some(<<>>), Some("Program")),
      Message(Some(<<"COMMENT">>), Some(<<>>), None),
      Message(Some(<<"UNKNOWN">>), Some(<<LexErr(1)>>), None),
      Message(Some(<<"KAI", "ID">>), Some(<<ParseErr(1)>>), Some("Program")),
      Message(Some(<<"UNKNOWN", "ID">>),
              Some(<<LexErr(1), ParseErr(1), LexErr(2), ParseErr(2)>>),
              Some("Program")) }

\* Frames outside the protocol.  ev.data that is not JSON makes JSON.parse
\* throw; the JSON text null parses to null, and reading data.tokens throws.
NotJson == [text |-> "not JSON"]
JsonNull == [text |-> "null"]
MalformedFrames == {NotJson, JsonNull}

\* JSON objects that lack one or several of the three fields ({} among them),
\* or carry an empty array.
PartialMessages ==
    { Message(None, None, None),
      Message(Some(<<>>), None, None),
      Message(None, Some(<<>>), None),
      Message(Some(<<"ID">>), None, None),
      Message(None, Some(<<LexErr(1)>>), None),
      Message(None, None, Some("Program")) }

\* What the server sends back for one {code} message.
ResponsesTo(code) == IF IsBlank(code) THEN {EmptyResponse} ELSE AnalysisResponses

\* ------------------------------------------------------------------- state
VARIABLES
    mounted,         \* the App component is mounted
    files,           \* useState<CodeFile[]>: sequence of [id, content]
    activeFileId,    \* useState<string>
    clock,           \* last reading of Date.now()
    tokens,          \* useState<Token[]>
    errors,          \* useState<LexerError[]>
    parseTree,       \* useState<ParseNode | null>: None is null
    activeTab,       \* useState<'symbol' | 'tree'>
    showErrors,      \* useState<boolean>
    wsStatus,        \* useState<string>
    readyState,      \* wsRef.current.readyState
    reconnectTimer,  \* setTimeout(connect, 800) is pending
    sendTimer,       \* None, or Some(code) while the 160 ms timer is pending
    lastTrigger,     \* None, or Some(code) of the latest triggerAnalysis(code)
    outbox,          \* requests sent on the socket, not yet answered
    inbox,           \* responses of the server, not yet delivered
    unsentEdit,      \* the buffer was edited and no message carried it yet
    phase,           \* analyze: "idle", "lex", "parse", "merge" or "done"
    source,          \* analyze: the text under analysis
    pos,             \* scanner: offset of the next character, 0-based
    engTokens,       \* scanner: the tokens produced so far
    lexErrs,         \* scanner: the lexical diagnostics so far
    cursor,          \* parser: index of the next significant token
    pstate,          \* parser: what the current production expects
    decls,           \* parser: the declarations completed so far
    synErrs,         \* parser: the syntactic diagnostics so far
    result,          \* analyze: None until done, then Some(result)
    calls,           \* number of calls of analyze made on this connection
    suspended,       \* the call of another connection, while it does not run
    node,            \* TreeNode: the node prop
    expanded,        \* TreeNode: useState(true)
    typeStr          \* TreeNode: None, or Some(label) once rendered

fileVars == <<files, activeFileId, clock>>
resultVars == <<tokens, errors, parseTree>>
viewVars == <<activeTab, showErrors>>
socketVars == <<wsStatus, readyState, reconnectTimer>>
wireVars == <<outbox, inbox>>
clientVars == <<mounted, files, activeFileId, clock, tokens, errors, parseTree,
                activeTab, showErrors, wsStatus, readyState, reconnectTimer,
                sendTimer, lastTrigger, outbox, inbox, unsentEdit>>
callVars == <<calls, suspended>>
treeVars == <<node, expanded, typeStr>>
engineVars == <<phase, source, pos, engTokens, lexErrs, cursor, pstate, decls,
                synErrs, result, calls, suspended>>
vars == <<mounted, files, activeFileId, clock, tokens, errors, parseTree,
          activeTab, showErrors, wsStatus, readyState, reconnectTimer,
          sendTimer, lastTrigger, outbox, inbox, unsentEdit, phase, source, pos,
          engTokens, lexErrs, cursor, pstate, decls, synErrs, result, calls,
          suspended, node, expanded, typeStr>>

FirstId == 1         \* { id: '1', name: 'main.sl', content: '' }

\* ---------------------------------------------------------- derived values
HasFile(fs, id) == \E i \in 1..Len(fs) : fs[i].id = id

\* Array.prototype.find: the first element that satisfies the test
FindFile(fs, id) ==
    fs[CHOOSE i \in 1..Len(fs) :
            /\ fs[i].id = id
            /\ \A j \in 1..(i - 1) : fs[j].id # id]

\* const activeFile = files.find(f => f.id === activeFileId) || files[0]
ActiveFile(fs, id) == IF HasFile(fs, id) THEN FindFile(fs, id) ELSE fs[1]

activeFile == ActiveFile(files, activeFileId)

IsParserError(e) == e.type = "PARSER_ERROR"
IsLexerError(e) == e.type # "PARSER_ERROR"

\* A filter whose test names a type no diagnostic has: it keeps every error.
LexerErrorsOf_WrongType(errs) ==
    SelectSeq(errs, LAMBDA e : e.type # "PARSE_ERROR")

\* const lexerErrors = errors.filter(e => e.type !== 'PARSER_ERROR')
LexerErrorsOf(errs) == SelectSeq(errs, IsLexerError)
\* const parserErrors = errors.filter(e => e.type === 'PARSER_ERROR')
ParserErrorsOf(errs) == SelectSeq(errs, IsParserError)

lexerErrors == LexerErrorsOf(errors)
parserErrors == ParserErrorsOf(errors)
activeErrors == IF activeTab = "symbol" THEN lexerErrors ELSE parserErrors
hasErrors == Len(activeErrors) > 0
\* A button that is disabled whenever the active phase has no error.
isErrorButtonDisabled_NoErrors == ~hasErrors

isErrorButtonDisabled == ~hasErrors /\ ~showErrors

\* ------------------------------------------------------------------- Init
\* What one connection holds of the engine: the locals of its call of analyze
\* and how many calls it has made.  Nothing else exists in the engine.
NoCall ==
    [phase |-> "idle", source |-> <<>>, pos |-> 0, engTokens |-> <<>>,
     lexErrs |-> <<>>, cursor |-> 1, pstate |-> "decl", decls |-> <<>>,
     synErrs |-> <<>>, result |-> None, calls |-> 0]

\* The engine before analyze(text) is called.
EngineIdle ==
    /\ phase = "idle"
    /\ source = <<>>
    /\ pos = 0
    /\ engTokens = <<>>
    /\ lexErrs = <<>>
    /\ cursor = 1
    /\ pstate = "decl"
    /\ decls = <<>>
    /\ synErrs = <<>>
    /\ result = None
    /\ calls = 0
    /\ suspended = NoCall

\* The client after the first render and the first run of the effect.
ClientInit ==
    /\ mounted = TRUE
    /\ files = <<[id |-> FirstId, content |-> <<>>]>>
    /\ activeFileId = FirstId
    /\ clock = FirstId + 1
    /\ tokens = <<>>
    /\ errors = <<>>
    /\ parseTree = None
    /\ activeTab = "symbol"
    /\ showErrors = FALSE
    /\ wsStatus = "CONNECTING"
    /\ readyState = "CONNECTING"
    /\ reconnectTimer = FALSE
    /\ sendTimer = None
    /\ lastTrigger = None
    /\ outbox = <<>>
    /\ inbox = <<>>
    /\ unsentEdit = FALSE

\* App renders no TreeNode.
NoTreeNode ==
    /\ node = [type |-> None, data |-> None, rule |-> None]
    /\ expanded = TRUE
    /\ typeStr = None

Init == ClientInit /\ EngineIdle /\ NoTreeNode

\* ---------------------------------------------------------------- socket
\* useState setters do nothing once the component is unmounted.
SetWsStatus(s) == wsStatus' = IF mounted THEN s ELSE wsStatus

\* ws.addEventListener("open", () => setWsStatus("CONNECTED"))
WsOpen ==
    /\ readyState = "CONNECTING"
    /\ readyState' = "OPEN"
    /\ SetWsStatus("CONNECTED")
    /\ UNCHANGED <<mounted, fileVars, resultVars, viewVars, reconnectTimer,
                   sendTimer, lastTrigger, wireVars, unsentEdit>>
    /\ UNCHANGED engineVars
    /\ UNCHANGED treeVars

\* An error listener that closes the socket and schedules connect() itself.
WsClosing_Reconnects ==
    /\ readyState = "OPEN"
    /\ readyState' = "CLOSING"
    /\ reconnectTimer' = TRUE
    /\ UNCHANGED <<mounted, fileVars, resultVars, viewVars, wsStatus,
                   sendTimer, lastTrigger, wireVars, unsentEdit>>
    /\ UNCHANGED engineVars
    /\ UNCHANGED treeVars

\* The closing handshake has started (by the server, or by ws.close() in the
\* error listener): the socket is CLOSING until its close event.
WsClosing ==
    /\ readyState = "OPEN"
    /\ readyState' = "CLOSING"
    /\ UNCHANGED <<mounted, fileVars, resultVars, viewVars, wsStatus,
                   reconnectTimer, sendTimer, lastTrigger, wireVars, unsentEdit>>
    /\ UNCHANGED engineVars
    /\ UNCHANGED treeVars

\* A close listener that shows the status and schedules nothing.
WsClose_NoRetry ==
    /\ readyState \in {"CONNECTING", "OPEN", "CLOSING"}
    /\ readyState' = "CLOSED"
    /\ SetWsStatus("DISCONNECTED")
    /\ outbox' = <<>>
    /\ inbox' = <<>>
    /\ UNCHANGED <<mounted, fileVars, resultVars, viewVars, reconnectTimer,
                   sendTimer, lastTrigger, unsentEdit>>
    /\ UNCHANGED engineVars
    /\ UNCHANGED treeVars

\* ws.addEventListener("close", ...): setWsStatus("DISCONNECTED");
\* setTimeout(connect, 800).  A failed connection attempt ends here as well:
\* its error event calls ws.close() on a socket that is already closed.
WsClose ==
    /\ readyState \in {"CONNECTING", "OPEN", "CLOSING"}
    /\ readyState' = "CLOSED"
    /\ SetWsStatus("DISCONNECTED")
    /\ reconnectTimer' = TRUE
    /\ outbox' = <<>>
    /\ inbox' = <<>>
    /\ UNCHANGED <<mounted, fileVars, resultVars, viewVars, sendTimer,
                   lastTrigger, unsentEdit>>
    /\ UNCHANGED engineVars
    /\ UNCHANGED treeVars

\* connect() without setWsStatus("CONNECTING").
Connect_KeepsStatus ==
    /\ reconnectTimer
    /\ DebounceMs < ReconnectMs => sendTimer = None
    /\ reconnectTimer' = FALSE
    /\ readyState' = "CONNECTING"
    /\ UNCHANGED <<mounted, fileVars, resultVars, viewVars, wsStatus,
                   sendTimer, lastTrigger,
                   wireVars, unsentEdit>>
    /\ UNCHANGED engineVars
    /\ UNCHANGED treeVars

\* connect(), run by the reconnect timer.  A send timer can only be set while
\* the socket is OPEN, hence before the close event that set the reconnect
\* timer: with the shorter delay it has the earlier deadline and runs first.
Connect ==
    /\ reconnectTimer
    /\ DebounceMs < ReconnectMs => sendTimer = None
    /\ reconnectTimer' = FALSE
    /\ SetWsStatus("CONNECTING")
    /\ readyState' = "CONNECTING"
    /\ UNCHANGED <<mounted, fileVars, resultVars, viewVars, sendTimer,
                   lastTrigger,
                   wireVars, unsentEdit>>
    /\ UNCHANGED engineVars
    /\ UNCHANGED treeVars

\* The cleanup of the effect: if (wsRef.current) wsRef.current.close()
CloseOnCleanup ==
    readyState' = IF readyState \in {"CONNECTING", "OPEN"} THEN "CLOSING"
                  ELSE readyState

Unmount ==
    /\ mounted
    /\ mounted' = FALSE
    /\ CloseOnCleanup
    /\ UNCHANGED <<fileVars, resultVars, viewVars, wsStatus, reconnectTimer,
                   sendTimer, lastTrigger, wireVars, unsentEdit>>
    /\ UNCHANGED engineVars
    /\ UNCHANGED treeVars

\* ------------------------------------------------------------- debounce
\* triggerAnalysis without clearTimeout, seen through the one timer the model
\* holds: the timer that is already pending stays the one that fires.
TriggerAnalysis_NoClear(code) ==
    /\ sendTimer' = IF readyState = "OPEN" /\ sendTimer = None THEN Some(code)
                    ELSE sendTimer
    /\ lastTrigger' = Some(code)

\* function triggerAnalysis(code): returns early unless the socket is OPEN,
\* else replaces the pending timer by one that will send `code`.
TriggerAnalysis(code) ==
    /\ sendTimer' = IF readyState = "OPEN" THEN Some(code) ELSE sendTimer
    /\ lastTrigger' = Some(code)

\* WebSocket.send: the message leaves only on an OPEN socket.  On a CLOSING
\* or CLOSED socket the data is dropped, on a CONNECTING one send throws and
\* the catch logs it.
CanSend == readyState = "OPEN"

\* A test for the empty string only, without trim().
ClearsResults_OnlyEmpty(code) == code = <<>>

\* if (code.trim() === "") { setTokens([]); setErrors([]); setParseTree(null) }
ClearsResults(code) == IsBlank(code)

\* The callback of the 160 ms timer.
SendTimerFire ==
    /\ sendTimer # None
    /\ CanSend => Len(outbox) + Len(inbox) < MaxInFlight
    /\ LET code == sendTimer[1] IN
        /\ IF mounted /\ ClearsResults(code)
           THEN tokens' = <<>> /\ errors' = <<>> /\ parseTree' = None
           ELSE UNCHANGED resultVars
        /\ outbox' = IF CanSend THEN Append(outbox, code) ELSE outbox
        /\ unsentEdit' = IF CanSend /\ mounted /\ code = activeFile.content
                         THEN FALSE ELSE unsentEdit
    /\ sendTimer' = None
    /\ UNCHANGED <<mounted, fileVars, viewVars, socketVars, inbox, lastTrigger>>
    /\ UNCHANGED engineVars
    /\ UNCHANGED treeVars

\* ----------------------------------------------------------------- server
\* The session loop of the backend: one response per request, in order.
ServerRespond ==
    /\ outbox # <<>>
    /\ readyState \in {"OPEN", "CLOSING"}
    /\ \E r \in ResponsesTo(Head(outbox)) : inbox' = Append(inbox, r)
    /\ outbox' = Tail(outbox)
    /\ UNCHANGED <<mounted, fileVars, resultVars, viewVars, socketVars,
                   sendTimer, lastTrigger, unsentEdit>>
    /\ UNCHANGED engineVars
    /\ UNCHANGED treeVars

\* Whatever arrives on the socket, requested or not: the listener runs for
\* every message event.
PushedFrames ==
    MalformedFrames \cup PartialMessages \cup AnalysisResponses
        \cup {EmptyResponse}

ServerPush ==
    /\ readyState = "OPEN"
    /\ Len(outbox) + Len(inbox) < MaxInFlight
    /\ \E frame \in PushedFrames : inbox' = Append(inbox, frame)
    /\ UNCHANGED <<mounted, fileVars, resultVars, viewVars, socketVars,
                   sendTimer, lastTrigger, outbox, unsentEdit>>
    /\ UNCHANGED engineVars
    /\ UNCHANGED treeVars

\* ------------------------------------------------------- message listener
\* The try block runs to its end: JSON.parse returns a value whose properties
\* can be read.
Readable(frame) == frame \notin MalformedFrames

\* A catch block that resets the display.
OnInvalidMessage_Clears ==
    /\ tokens' = <<>>
    /\ errors' = <<>>
    /\ parseTree' = None

\* catch (e) { console.error("Invalid message from server", e) }
OnInvalidMessage == UNCHANGED resultVars

\* A test that skips an empty array: data.tokens && data.tokens.length
TokensAfter_NonEmptyOnly(m, cur) ==
    IF m.tokens # None /\ m.tokens[1] # <<>> THEN m.tokens[1] ELSE cur

\* if (data.tokens) setTokens(data.tokens)
TokensAfter(m, cur) == IF m.tokens # None THEN m.tokens[1] ELSE cur

\* if (data.errors) setErrors(data.errors)
ErrorsAfter(m, cur) == IF m.errors # None THEN m.errors[1] ELSE cur

\* if (data.parseTree) setParseTree(data.parseTree)
\* else if (data.errors && data.errors.length > 0) setParseTree(null)
ParseTreeAfter(m, cur) ==
    IF m.parseTree # None THEN m.parseTree
    ELSE IF m.errors # None /\ Len(m.errors[1]) > 0 THEN None
    ELSE cur

ReceiveMessage ==
    /\ inbox # <<>>
    /\ readyState \in {"OPEN", "CLOSING"}
    /\ LET m == Head(inbox) IN
        IF ~mounted THEN UNCHANGED resultVars
        ELSE IF Readable(m)
        THEN /\ tokens' = TokensAfter(m, tokens)
             /\ errors' = ErrorsAfter(m, errors)
             /\ parseTree' = ParseTreeAfter(m, parseTree)
        ELSE OnInvalidMessage
    /\ inbox' = Tail(inbox)
    /\ UNCHANGED <<mounted, fileVars, viewVars, socketVars, sendTimer,
                   lastTrigger, outbox,
                   unsentEdit>>
    /\ UNCHANGED engineVars
    /\ UNCHANGED treeVars

\* ------------------------------------------------------------------ files
\* prev.map(f => f.id === id ? { ...f, content } : f)
SetContent(fs, id, content) ==
    [i \in 1..Len(fs) |->
        IF fs[i].id = id THEN [fs[i] EXCEPT !.content = content] ELSE fs[i]]

\* files.filter(f => f.id !== id)
RemoveFile(fs, id) == SelectSeq(fs, LAMBDA f : f.id # id)

\* Date.now(): a reading never lies before an earlier one.
DateNow == clock..(FirstId + MaxClock)

\* function handleCodeChange(e)
handleCodeChange ==
    /\ mounted
    /\ \E newContent \in Texts :
        /\ newContent # activeFile.content
        /\ files' = SetContent(files, activeFileId, newContent)
        /\ TriggerAnalysis(newContent)
    /\ unsentEdit' = TRUE
    /\ UNCHANGED <<mounted, activeFileId, clock, resultVars, viewVars,
                   socketVars, wireVars>>
    /\ UNCHANGED engineVars
    /\ UNCHANGED treeVars

\* handleKeyDown with e.key === 'Tab'; the selection lies inside the buffer.
handleKeyDown ==
    /\ mounted
    /\ LET content == activeFile.content IN
       \E start \in 0..Len(content) : \E end \in start..Len(content) :
        LET newContent == Substring(content, 0, start) \o Indent
                            \o Substring(content, end, Len(content)) IN
        /\ Len(newContent) <= MaxLen
        /\ files' = SetContent(files, activeFileId, newContent)
        /\ TriggerAnalysis(newContent)
    /\ unsentEdit' = TRUE
    /\ UNCHANGED <<mounted, activeFileId, clock, resultVars, viewVars,
                   socketVars, wireVars>>
    /\ UNCHANGED engineVars
    /\ UNCHANGED treeVars

\* function handleAddFile()
handleAddFile ==
    /\ mounted
    /\ Len(files) < MaxFiles
    /\ \E newId \in DateNow :
        /\ clock' = newId
        /\ files' = Append(files, [id |-> newId, content |-> <<>>])
        /\ activeFileId' = newId
    /\ TriggerAnalysis(<<>>)
    /\ UNCHANGED <<mounted, resultVars, viewVars, socketVars, wireVars,
                   unsentEdit>>
    /\ UNCHANGED engineVars
    /\ UNCHANGED treeVars

\* reader.onload of handleFileRead: the file chosen by the user was read.
handleFileRead ==
    /\ mounted
    /\ Len(files) < MaxFiles
    /\ \E content \in Texts : \E newId \in DateNow :
        /\ clock' = newId
        /\ files' = Append(files, [id |-> newId, content |-> content])
        /\ activeFileId' = newId
        /\ TriggerAnalysis(content)
    /\ UNCHANGED <<mounted, resultVars, viewVars, socketVars, wireVars,
                   unsentEdit>>
    /\ UNCHANGED engineVars
    /\ UNCHANGED treeVars

\* function handleCloseFile(e, id).  With no file left, next.id throws and
\* the next render fails on activeFile.content: React unmounts the component,
\* which runs the cleanup of the effect.
handleCloseFile ==
    /\ mounted
    /\ \E i \in 1..Len(files) :
        LET id == files[i].id
            newFiles == RemoveFile(files, id) IN
        IF Len(files) = 1
        THEN /\ files' = <<[files[1] EXCEPT !.content = <<>>]>>
             /\ TriggerAnalysis(<<>>)
             /\ UNCHANGED <<mounted, activeFileId, readyState>>
        ELSE /\ files' = newFiles
             /\ IF newFiles = <<>>
                THEN /\ mounted' = FALSE
                     /\ CloseOnCleanup
                     /\ UNCHANGED <<activeFileId, sendTimer, lastTrigger>>
                ELSE /\ IF activeFileId = id
                        THEN /\ activeFileId' = newFiles[1].id
                             /\ TriggerAnalysis(newFiles[1].content)
                        ELSE UNCHANGED <<activeFileId, sendTimer, lastTrigger>>
                     /\ UNCHANGED <<mounted, readyState>>
    /\ UNCHANGED <<clock, resultVars, viewVars, wsStatus, reconnectTimer,
                   wireVars, unsentEdit>>
    /\ UNCHANGED engineVars
    /\ UNCHANGED treeVars

\* function handleTabClick(id)
handleTabClick ==
    /\ mounted
    /\ \E i \in 1..Len(files) :
        LET id == files[i].id IN
        /\ activeFileId' = id
        /\ TriggerAnalysis(FindFile(files, id).content)
    /\ UNCHANGED <<mounted, files, clock, resultVars, viewVars, socketVars,
                   wireVars, unsentEdit>>
    /\ UNCHANGED engineVars
    /\ UNCHANGED treeVars

\* ------------------------------------------------------------------- view
\* onClick={() => { setActiveTab('symbol'); setShowErrors(false); }}
ClickLexerTab ==
    /\ mounted
    /\ activeTab' = "symbol"
    /\ showErrors' = FALSE
    /\ UNCHANGED <<mounted, fileVars, resultVars, socketVars, sendTimer,
                   lastTrigger,
                   wireVars, unsentEdit>>
    /\ UNCHANGED engineVars
    /\ UNCHANGED treeVars

\* onClick={() => { setActiveTab('tree'); setShowErrors(false); }}
ClickParserTab ==
    /\ mounted
    /\ activeTab' = "tree"
    /\ showErrors' = FALSE
    /\ UNCHANGED <<mounted, fileVars, resultVars, socketVars, sendTimer,
                   lastTrigger,
                   wireVars, unsentEdit>>
    /\ UNCHANGED engineVars
    /\ UNCHANGED treeVars

\* onClick={() => setShowErrors(!showErrors)} disabled={isErrorButtonDisabled}
ToggleErrors ==
    /\ mounted
    /\ ~isErrorButtonDisabled
    /\ showErrors' = ~showErrors
    /\ UNCHANGED <<mounted, fileVars, resultVars, activeTab, socketVars,
                   sendTimer, lastTrigger, wireVars, unsentEdit>>
    /\ UNCHANGED engineVars
    /\ UNCHANGED treeVars

\* ------------------------------------------------------------------- Next
Next ==
    \/ WsOpen
    \/ WsClosing
    \/ WsClose
    \/ Connect
    \/ Unmount
    \/ SendTimerFire
    \/ ServerRespond
    \/ ServerPush
    \/ ReceiveMessage
    \/ handleCodeChange
    \/ handleKeyDown
    \/ handleAddFile
    \/ handleFileRead
    \/ handleCloseFile
    \/ handleTabClick
    \/ ClickLexerTab
    \/ ClickParserTab
    \/ ToggleErrors

Spec == Init /\ [][Next]_vars

\* The whole client is the product of five nearly independent parts (socket,
\* debounce, wire, files, view).  Each specification below lets only some of
\* the events happen; every behaviour of a part is a behaviour of Spec.

\* One buffer, edited over a socket that opens, closes and reconnects.
SessionNext ==
    \/ WsOpen
    \/ WsClosing
    \/ WsClose
    \/ Connect
    \/ Unmount
    \/ SendTimerFire
    \/ ServerRespond
    \/ ReceiveMessage
    \/ handleCodeChange

SessionSpec == Init /\ [][SessionNext]_vars

\* The same, with what the event loop, the network and the server guarantee:
\* a pending timer fires, a connection attempt completes, a request is
\* answered and a response is delivered.
SessionFairSpec ==
    /\ SessionSpec
    /\ WF_vars(SendTimerFire)
    /\ WF_vars(Connect)
    /\ WF_vars(WsOpen)
    /\ WF_vars(ServerRespond)
    /\ WF_vars(ReceiveMessage)

\* The socket and the two timers; the server does not answer.
SocketNext ==
    \/ WsOpen
    \/ WsClosing
    \/ WsClose
    \/ Connect
    \/ Unmount
    \/ SendTimerFire
    \/ handleCodeChange

SocketSpec == Init /\ [][SocketNext]_vars

\* The same, with what the event loop and the browser guarantee: a pending
\* timer fires, and a socket that is CLOSING gets its close event (the closing
\* handshake ends or times out).
SocketFairSpec ==
    /\ SocketSpec
    /\ WF_vars(SendTimerFire)
    /\ WF_vars(Connect)
    /\ WF_vars(readyState = "CLOSING" /\ WsClose)

\* The file list and what is sent for it; the server does not answer.
FilesNext ==
    \/ WsOpen
    \/ WsClosing
    \/ WsClose
    \/ Connect
    \/ Unmount
    \/ SendTimerFire
    \/ handleCodeChange
    \/ handleKeyDown
    \/ handleAddFile
    \/ handleFileRead
    \/ handleCloseFile
    \/ handleTabClick

FilesSpec == Init /\ [][FilesNext]_vars

\* The message listener under every kind of frame, on a socket that stays
\* open.
ListenerNext ==
    \/ WsOpen
    \/ ServerPush
    \/ ReceiveMessage

ListenerSpec == Init /\ [][ListenerNext]_vars

\* The result panel over a socket that stays open.
ViewNext ==
    \/ WsOpen
    \/ SendTimerFire
    \/ ServerRespond
    \/ ReceiveMessage
    \/ handleCodeChange
    \/ ClickLexerTab
    \/ ClickParserTab
    \/ ToggleErrors

ViewSpec == Init /\ [][ViewNext]_vars

\* ----------------------------------------------------------------- engine
\* analyze(source) of the backend, after sections 4.1 to 4.4 of the design.
\* The reserved-word list, the operator table and the comment marker are left
\* open there (section 9); the model fixes one small instance of each.
SourceChars == {" ", "\n", "#", "k", "a", "1", ".", "\"", "=", ";", "@"}

RECURSIVE SourcesOfLen(_)
SourcesOfLen(n) ==
    IF n = 0 THEN {<<>>}
    ELSE {Append(t, c) : t \in SourcesOfLen(n - 1), c \in SourceChars}

Sources == UNION {SourcesOfLen(n) : n \in 0..MaxSource}

Whitespace == {" ", "\n"}
Letters == {"k", "a"}
Digits == {"1"}
IdentChars == Letters \cup Digits
CommentMarker == "#"
Quote == "\""
RadixPoint == "."
ReservedWords == {<<"k">>}
OperatorTable == {<<"=", "=">>, <<"=">>, <<";">>}
NoError == "none"

\* The offset where the maximal run of characters of class C that starts at
\* offset p ends (p itself when the character at p is not in C).
RunEnd(s, p, C) ==
    CHOOSE q \in p..Len(s) :
        /\ \A i \in (p + 1)..q : s[i] \in C
        /\ q = Len(s) \/ s[q + 1] \notin C

Scanned(kind, end, error) == [kind |-> kind, end |-> end, error |-> error]

\* 4.1 step 1: a run of white space; a comment runs to the end of its line.
ScanWhitespace(s, p) == Scanned("Whitespace", RunEnd(s, p, Whitespace), NoError)
ScanComment(s, p) ==
    Scanned("Comment", RunEnd(s, p, SourceChars \ {"\n"}), NoError)

\* 4.1 step 2: a maximal run of identifier characters, looked up in the
\* reserved-word table.
ScanWord(s, p) ==
    LET q == RunEnd(s, p, IdentChars) IN
    Scanned(IF SubSeq(s, p + 1, q) \in ReservedWords THEN "Keyword"
            ELSE "Identifier", q, NoError)

\* 4.1 step 3: digits; with a radix point and digits a float; a radix point
\* with no digit after it is malformed and still yields a token.
ScanNumber(s, p) ==
    LET q == RunEnd(s, p, Digits) IN
    IF q < Len(s) /\ s[q + 1] = RadixPoint
    THEN LET r == RunEnd(s, q + 1, Digits) IN
         IF r > q + 1 THEN Scanned("FloatLiteral", r, NoError)
         ELSE Scanned("FloatLiteral", q + 1, "MALFORMED_NUMBER")
    ELSE Scanned("IntegerLiteral", q, NoError)

\* 4.1 step 4: from the opening quote to the closing quote on the same line;
\* without one the literal ends at the line boundary and is an error.
ScanString(s, p) ==
    LET q == RunEnd(s, p + 1, SourceChars \ {Quote, "\n"}) IN
    IF q < Len(s) /\ s[q + 1] = Quote
    THEN Scanned("StringLiteral", q + 1, NoError)
    ELSE Scanned("StringLiteral", q, "UNTERMINATED_STRING")

\* 4.1 step 5: the longest operator of the table at this offset.
OperatorLengths(s, p) ==
    {n \in 1..(Len(s) - p) : SubSeq(s, p + 1, p + n) \in OperatorTable}

ScanOperator(s, p) ==
    LET n == CHOOSE m \in OperatorLengths(s, p) :
                \A k \in OperatorLengths(s, p) : k <= m IN
    Scanned(IF SubSeq(s, p + 1, p + n) = <<";">> THEN "Semicolon"
            ELSE "Operator", p + n, NoError)

\* An Unknown token that leaves the offending character in the input.
ScanUnknown_NoAdvance(s, p) == Scanned("Unknown", p, "UNKNOWN_CHAR")

\* 4.1 step 6: any other character is a one-character Unknown token.
ScanUnknown(s, p) == Scanned("Unknown", p + 1, "UNKNOWN_CHAR")

\* One iteration of the scanner at offset p < Len(s).
ScanAt(s, p) ==
    LET c == s[p + 1] IN
    IF c \in Whitespace THEN ScanWhitespace(s, p)
    ELSE IF c = CommentMarker THEN ScanComment(s, p)
    ELSE IF c \in Letters THEN ScanWord(s, p)
    ELSE IF c \in Digits THEN ScanNumber(s, p)
    ELSE IF c = Quote THEN ScanString(s, p)
    ELSE IF OperatorLengths(s, p) # {} THEN ScanOperator(s, p)
    ELSE ScanUnknown(s, p)

\* A string token whose lexeme is the content without its opening quote.
MakeToken_Unquoted(s, p, sc) ==
    [kind |-> sc.kind,
     lexeme |-> IF sc.kind = "StringLiteral" THEN SubSeq(s, p + 2, sc.end)
                ELSE SubSeq(s, p + 1, sc.end),
     start |-> p, end |-> sc.end]

\* A token whose span also counts the character the scanner looked ahead at.
MakeToken_SpanPastEnd(s, p, sc) ==
    [kind |-> sc.kind, lexeme |-> SubSeq(s, p + 1, sc.end), start |-> p,
     end |-> sc.end + 1]

\* Token = {kind, lexeme, start, end}; the lexeme is the text the scanner
\* passed over.
MakeToken(s, p, sc) ==
    [kind |-> sc.kind, lexeme |-> SubSeq(s, p + 1, sc.end), start |-> p,
     end |-> sc.end]

\* Diagnostic = {phase, kind, start, end}
Diagnostic(ph, kind, start, end) ==
    [phase |-> ph, kind |-> kind, start |-> start, end |-> end]

ScanStep ==
    /\ phase = "lex"
    /\ pos < Len(source)
    /\ LET sc == ScanAt(source, pos) IN
        /\ engTokens' = Append(engTokens, MakeToken(source, pos, sc))
        /\ lexErrs' = IF sc.error = NoError THEN lexErrs
                      ELSE Append(lexErrs,
                                  Diagnostic("Lexical", sc.error, pos, sc.end))
        /\ pos' = sc.end
    /\ UNCHANGED <<phase, source, cursor, pstate, decls, synErrs, result>>
    /\ UNCHANGED callVars
    /\ UNCHANGED clientVars
    /\ UNCHANGED treeVars

\* tokenize returns at the end of the input; parse starts.
ScanEnd ==
    /\ phase = "lex"
    /\ pos >= Len(source)
    /\ phase' = "parse"
    /\ UNCHANGED <<source, pos, engTokens, lexErrs, cursor, pstate, decls,
                   synErrs, result>>
    /\ UNCHANGED callVars
    /\ UNCHANGED clientVars
    /\ UNCHANGED treeVars

\* 4.2: white space and comments are filtered from what the parser sees.
IsSignificant(t) == t.kind \notin {"Whitespace", "Comment"}
Significant(toks) == SelectSeq(toks, IsSignificant)

\* Program := Declaration*; Declaration := Keyword Identifier ';' (the minimal
\* variable declaration of section 8).  What the production expects next:
Expected(st) ==
    IF st = "decl" THEN "Keyword"
    ELSE IF st = "ident" THEN "Identifier"
    ELSE "Semicolon"

AfterMatch(st) ==
    IF st = "decl" THEN "ident"
    ELSE IF st = "ident" THEN "semi"
    ELSE "decl"

\* A mismatch that is raised as an exception instead of being recovered.
OnMismatch_Raise(st) == "raised"

\* Panic mode: after the diagnostic the parser discards tokens up to a
\* synchronisation point.
OnMismatch(st) == "sync"

\* The states in which the parser runs; a production that raised has left it.
ParserStates == {"decl", "ident", "semi", "sync"}

\* A synchronisation point: a statement terminator (consumed) or a token that
\* can start a declaration (kept).
EndsStatement(t) == t.kind = "Semicolon"
StartsDeclaration(t) == t.kind = "Keyword"

ParseStep ==
    /\ phase = "parse"
    /\ pstate \in ParserStates
    /\ cursor <= Len(Significant(engTokens))
    /\ LET t == Significant(engTokens)[cursor] IN
        IF pstate = "sync"
        THEN /\ cursor' = IF StartsDeclaration(t) THEN cursor ELSE cursor + 1
             /\ pstate' = IF StartsDeclaration(t) \/ EndsStatement(t)
                          THEN "decl" ELSE "sync"
             /\ UNCHANGED <<decls, synErrs>>
        ELSE IF t.kind = Expected(pstate)
        THEN /\ cursor' = cursor + 1
             /\ pstate' = AfterMatch(pstate)
             /\ decls' = IF pstate = "semi"
                         THEN Append(decls, [type |-> "Declaration",
                                             end |-> t.end])
                         ELSE decls
             /\ UNCHANGED synErrs
        ELSE /\ synErrs' = Append(synErrs,
                    Diagnostic("Syntactic", "PARSER_ERROR", t.start, t.end))
             /\ pstate' = OnMismatch(pstate)
             /\ UNCHANGED <<cursor, decls>>
    /\ UNCHANGED <<phase, source, pos, engTokens, lexErrs, result>>
    /\ UNCHANGED callVars
    /\ UNCHANGED clientVars
    /\ UNCHANGED treeVars

\* End of input: a declaration left open is one more syntactic diagnostic;
\* the declarations completed so far are kept.
ParseEnd ==
    /\ phase = "parse"
    /\ pstate \in ParserStates
    /\ cursor > Len(Significant(engTokens))
    /\ synErrs' = IF pstate \in {"ident", "semi"}
                  THEN Append(synErrs, Diagnostic("Syntactic", "PARSER_ERROR",
                                                  Len(source), Len(source)))
                  ELSE synErrs
    /\ phase' = "merge"
    /\ UNCHANGED <<source, pos, engTokens, lexErrs, cursor, pstate, decls,
                   result>>
    /\ UNCHANGED callVars
    /\ UNCHANGED clientVars
    /\ UNCHANGED treeVars

\* A merge that breaks a tie in favour of the syntactic diagnostic.
RECURSIVE MergeDiagnostics_SyntacticFirst(_, _)
MergeDiagnostics_SyntacticFirst(lex, syn) ==
    IF lex = <<>> THEN syn
    ELSE IF syn = <<>> THEN lex
    ELSE IF Head(lex).start < Head(syn).start
    THEN <<Head(lex)>> \o MergeDiagnostics_SyntacticFirst(Tail(lex), syn)
    ELSE <<Head(syn)>> \o MergeDiagnostics_SyntacticFirst(lex, Tail(syn))

\* 4.3: one sequence sorted by start, lexical before syntactic on a tie.
RECURSIVE MergeDiagnostics(_, _)
MergeDiagnostics(lex, syn) ==
    IF lex = <<>> THEN syn
    ELSE IF syn = <<>> THEN lex
    ELSE IF Head(lex).start <= Head(syn).start
    THEN <<Head(lex)>> \o MergeDiagnostics(Tail(lex), syn)
    ELSE <<Head(syn)>> \o MergeDiagnostics(lex, Tail(syn))

\* 4.3: adjacent diagnostics of the same kind with overlapping spans are one.
Overlap(a, b) == a.start < b.end /\ b.start < a.end

RECURSIVE Collapse(_)
Collapse(ds) ==
    IF Len(ds) < 2 THEN ds
    ELSE IF ds[1].kind = ds[2].kind /\ Overlap(ds[1], ds[2])
    THEN Collapse(<<ds[1]>> \o SubSeq(ds, 3, Len(ds)))
    ELSE <<ds[1]>> \o Collapse(Tail(ds))

\* A parser that gives up the tree as soon as it has reported an error.
TreeOf_NoneOnError(ds) ==
    IF ds = <<>> \/ synErrs # <<>> THEN None
    ELSE Some([type |-> "Program", children |-> ds])

\* tree is None only if no declaration was parsed.
TreeOf(ds) ==
    IF ds = <<>> THEN None ELSE Some([type |-> "Program", children |-> ds])

\* 4.4: return {tokens, diagnostics: merge(lexErrs, synErrs), tree}
Finish ==
    /\ phase = "merge"
    /\ result' = Some([tokens |-> engTokens,
                       diagnostics |-> Collapse(MergeDiagnostics(lexErrs, synErrs)),
                       tree |-> TreeOf(decls)])
    /\ phase' = "done"
    /\ UNCHANGED <<source, pos, engTokens, lexErrs, cursor, pstate, decls,
                   synErrs>>
    /\ UNCHANGED callVars
    /\ UNCHANGED clientVars
    /\ UNCHANGED treeVars

\* analyze(source) has just been called, for any source text.
EngineInit ==
    /\ ClientInit
    /\ NoTreeNode
    /\ phase = "lex"
    /\ source \in Sources
    /\ pos = 0
    /\ engTokens = <<>>
    /\ lexErrs = <<>>
    /\ cursor = 1
    /\ pstate = "decl"
    /\ decls = <<>>
    /\ synErrs = <<>>
    /\ result = None
    /\ calls = 1
    /\ suspended = NoCall

EngineNext ==
    \/ ScanStep
    \/ ScanEnd
    \/ ParseStep
    \/ ParseEnd
    \/ Finish

EngineSpec == EngineInit /\ [][EngineNext]_vars

\* analyze is synchronous: a call that can take a step takes it.
EngineFairSpec == EngineSpec /\ WF_vars(EngineNext)

\* Source texts long enough for several declarations: a text is made of up to
\* MaxPieces pieces, each a reserved word with the blank after it, an
\* identifier letter, a statement terminator or a character of no token class.
Pieces == {<<"k", " ">>, <<"a">>, <<";">>, <<"@">>}

RECURSIVE ProgramsOf(_)
ProgramsOf(n) ==
    IF n = 0 THEN {<<>>}
    ELSE {t \o piece : t \in ProgramsOf(n - 1), piece \in Pieces}

ProgramSources == UNION {ProgramsOf(n) : n \in 0..MaxPieces}

\* analyze(source) has just been called for one of these texts.
ProgramInit ==
    /\ ClientInit
    /\ NoTreeNode
    /\ phase = "lex"
    /\ source \in ProgramSources
    /\ pos = 0
    /\ engTokens = <<>>
    /\ lexErrs = <<>>
    /\ cursor = 1
    /\ pstate = "decl"
    /\ decls = <<>>
    /\ synErrs = <<>>
    /\ result = None
    /\ calls = 1
    /\ suspended = NoCall

ProgramSpec == ProgramInit /\ [][EngineNext]_vars

\* ------------------------------------------------------ calls of analyze
\* The session layer calls analyze once per request; several connections may
\* be inside analyze at the same time (section 5).  One connection runs, the
\* call of the other one waits in `suspended`.
CallSources == UNION {ProgramsOf(n) : n \in 0..MaxCallPieces}

\* A parser that keeps its position in the token stream from call to call.
NewCall_KeepsCursor(text) ==
    [phase |-> "lex", source |-> text, pos |-> 0, engTokens |-> <<>>,
     lexErrs |-> <<>>, cursor |-> cursor, pstate |-> "decl", decls |-> <<>>,
     synErrs |-> <<>>, result |-> None, calls |-> calls + 1]

\* 3, 4.4: every call starts from nothing but its argument ("no retained
\* state", "created fresh per analyze call").
NewCall(text) ==
    [phase |-> "lex", source |-> text, pos |-> 0, engTokens |-> <<>>,
     lexErrs |-> <<>>, cursor |-> 1, pstate |-> "decl", decls |-> <<>>,
     synErrs |-> <<>>, result |-> None, calls |-> calls + 1]

\* The locals of the running call.
Running ==
    [phase |-> phase, source |-> source, pos |-> pos, engTokens |-> engTokens,
     lexErrs |-> lexErrs, cursor |-> cursor, pstate |-> pstate,
     decls |-> decls, synErrs |-> synErrs, result |-> result, calls |-> calls]

Resume(call) ==
    /\ phase' = call.phase
    /\ source' = call.source
    /\ pos' = call.pos
    /\ engTokens' = call.engTokens
    /\ lexErrs' = call.lexErrs
    /\ cursor' = call.cursor
    /\ pstate' = call.pstate
    /\ decls' = call.decls
    /\ synErrs' = call.synErrs
    /\ result' = call.result
    /\ calls' = call.calls

\* analyze(text) is called on the running connection, whose previous call (if
\* any) has returned.
Call ==
    /\ phase \in {"idle", "done"}
    /\ calls < MaxCalls
    /\ \E text \in CallSources : Resume(NewCall(text))
    /\ UNCHANGED suspended
    /\ UNCHANGED clientVars
    /\ UNCHANGED treeVars

\* The scheduler lets the other connection run.
Switch ==
    /\ suspended # Running
    /\ Resume(suspended)
    /\ suspended' = Running
    /\ UNCHANGED clientVars
    /\ UNCHANGED treeVars

CallsNext ==
    \/ Call
    \/ Switch
    \/ ScanStep
    \/ ScanEnd
    \/ ParseStep
    \/ ParseEnd
    \/ Finish

CallsSpec == Init /\ [][CallsNext]_vars

\* -------------------------------------------------------------- TreeNode
\* The type, data and rule fields of a ParseNode: optional strings.
FieldValues == {None, Some(""), Some("Program"), Some("start")}

Nodes == [type : FieldValues, data : FieldValues, rule : FieldValues]

\* A value is truthy unless it is undefined or the empty string.
Truthy(v) == v # None /\ v[1] # ""

\* a || b: a when it is truthy, else b
Or(a, b) == IF Truthy(a) THEN a ELSE b

\* A label that looks at the Lark field before the backend's.
rawType_DataFirst(n) == Or(Or(Or(n.data, n.type), n.rule), Some("Unknown"))

\* const rawType = node.type || node.data || node.rule || "Unknown"
rawType(n) == Or(Or(Or(n.type, n.data), n.rule), Some("Unknown"))

\* String(rawType) of a string
String(v) == v[1]

\* One render of the component: <span ...>{typeStr}</span>
RenderTreeNode ==
    /\ typeStr' = Some(String(rawType(node)))
    /\ UNCHANGED <<node, expanded>>
    /\ UNCHANGED clientVars
    /\ UNCHANGED engineVars

\* handleNodeClick: setExpanded(!expanded); the component renders again.
handleNodeClick ==
    /\ typeStr # None
    /\ expanded' = ~expanded
    /\ typeStr' = Some(String(rawType(node)))
    /\ UNCHANGED node
    /\ UNCHANGED clientVars
    /\ UNCHANGED engineVars

\* A TreeNode is mounted with any node.
TreeNodeInit ==
    /\ ClientInit
    /\ EngineIdle
    /\ node \in Nodes
    /\ expanded = TRUE
    /\ typeStr = None

TreeNodeNext ==
    \/ RenderTreeNode
    \/ handleNodeClick

TreeNodeSpec == TreeNodeInit /\ [][TreeNodeNext]_vars

\* ----------------------------------------------------------------- claims
\* The response at the head of the inbox answers a request after which the
\* client has sent another one on this socket (one response per request, in
\* order: a later request is still unanswered or its response is behind).
Superseded == outbox # <<>> \/ Len(inbox) > 1

\* C1: once a newer request has been sent, the response to an earlier request
\* is discarded: processing it changes none of tokens, errors and parseTree.
C1_StaleResponseDiscarded ==
    [][(ReceiveMessage /\ mounted /\ Superseded) => UNCHANGED resultVars]_vars

\* C2: with an empty or white-space-only buffer, once the response to the
\* latest request (the empty response) has been processed and no request is
\* pending, tokens = [], errors = [] and parseTree = null.
C2_EmptyBufferClears ==
    [][(/\ ReceiveMessage
        /\ mounted
        /\ IsBlank(activeFile.content)
        /\ Head(inbox) = EmptyResponse
        /\ ~Superseded
        /\ sendTimer = None)
       => (tokens' = <<>> /\ errors' = <<>> /\ parseTree' = None)]_vars

\* What the panel renders of the error list (the parse tree itself is never
\* rendered: the component renders no TreeNode).
ErrorViewItems == IF showErrors THEN activeErrors ELSE <<>>

ParserTabItems ==
    IF ~showErrors /\ activeTab = "tree" /\ Len(lexerErrors) = 0
    THEN parserErrors ELSE <<>>

DisplayedErrors == ErrorViewItems \o ParserTabItems

\* C3: while the error list holds a lexical error, no PARSER_ERROR diagnostic
\* is displayed, on either tab, with the error view shown or hidden.
C3_SyntaxWithheld ==
    (mounted /\ Len(lexerErrors) > 0)
        => SelectSeq(DisplayedErrors, IsParserError) = <<>>

\* C4: if the component stays mounted and the socket ends up OPEN for good,
\* every edit is eventually followed by a message that carries the buffer.
C4_EditEventuallySent ==
    (<>[](mounted /\ readyState = "OPEN")) => (unsentEdit ~> ~unsentEdit)

\* C5: every message sent carries the content of the active file at the
\* moment it is sent.
C5_SendsActiveBuffer ==
    [][(mounted /\ Len(outbox') > Len(outbox))
        => outbox'[Len(outbox')] = activeFile.content]_vars

\* C6: after a message with tokens and errors is processed, the stored tree
\* is the message's parseTree, null when the message has none.
C6_TreeFollowsMessage ==
    [][(/\ ReceiveMessage
        /\ mounted
        /\ Head(inbox).tokens # None
        /\ Head(inbox).errors # None)
       => parseTree' = Head(inbox).parseTree]_vars

\* s is t with some elements left out, the others in the order of t.
RECURSIVE IsSubsequence(_, _)
IsSubsequence(s, t) ==
    IF s = <<>> THEN TRUE
    ELSE IF t = <<>> THEN FALSE
    ELSE IF Head(s) = Head(t) THEN IsSubsequence(Tail(s), Tail(t))
    ELSE IsSubsequence(s, Tail(t))

\* C7: lexerErrors holds the errors whose type is not PARSER_ERROR,
\* parserErrors those whose type is; every error is in exactly one of them and
\* each keeps the order of the received list.
C7_ErrorsPartitioned ==
    /\ \A i \in 1..Len(lexerErrors) : lexerErrors[i].type # "PARSER_ERROR"
    /\ \A i \in 1..Len(parserErrors) : parserErrors[i].type = "PARSER_ERROR"
    /\ Len(lexerErrors) + Len(parserErrors) = Len(errors)
    /\ IsSubsequence(lexerErrors, errors)
    /\ IsSubsequence(parserErrors, errors)

C7_Witness == Len(lexerErrors) >= 2 /\ Len(parserErrors) >= 2

RECURSIVE ConcatLexemes(_)
ConcatLexemes(toks) ==
    IF toks = <<>> THEN <<>>
    ELSE Head(toks).lexeme \o ConcatLexemes(Tail(toks))

\* C8: the lexemes of the tokens returned by tokenize, concatenated in order,
\* are the source text.
C8_RoundTrip ==
    (phase \notin {"idle", "lex"}) => ConcatLexemes(engTokens) = source

C8_Witness ==
    /\ phase = "done"
    /\ \E i \in 1..Len(engTokens) : engTokens[i].kind = "Whitespace"
    /\ \E i \in 1..Len(engTokens) : engTokens[i].kind = "Comment"
    /\ Len(engTokens) >= 3

\* C9: every iteration of the scanner consumes at least one character and
\* stays inside the input, so there are never more tokens than characters
\* consumed.
C9_ScanProgress ==
    [][ScanStep => (/\ pos' > pos
                    /\ pos' <= Len(source)
                    /\ Len(engTokens') <= pos')]_vars

C9_Witness ==
    /\ phase = "done"
    /\ Len(source) >= 2
    /\ Len(engTokens) = Len(source)
    /\ \A i \in 1..Len(engTokens) : engTokens[i].kind = "Unknown"

\* The result analyze returns: every character is covered by a token, every
\* significant token was seen by the parser and every diagnostic is a record
\* of one of the two phases.
WellFormedResult ==
    /\ result # None
    /\ pos = Len(source)
    /\ cursor = Len(Significant(engTokens)) + 1
    /\ result[1].tokens = engTokens
    /\ \A i \in 1..Len(result[1].diagnostics) :
        result[1].diagnostics[i].phase \in {"Lexical", "Syntactic"}
    /\ Len(lexErrs) + Len(synErrs) > 0 => Len(result[1].diagnostics) > 0

\* C10: analyze returns a result for every input; lexical and syntactic
\* errors end up in the result and stop neither tokenization nor parsing.
C10_AnalyzeTotal == <>(phase = "done" /\ WellFormedResult)

C10_Witness ==
    /\ phase = "done"
    /\ WellFormedResult
    /\ Len(lexErrs) > 0
    /\ Len(synErrs) > 0

\* C11: in the token sequence every token has end >= start and every token
\* starts at or after the end of the token before it: spans never overlap.
C11_PositionsMonotonic ==
    /\ \A i \in 1..Len(engTokens) : engTokens[i].end >= engTokens[i].start
    /\ \A i \in 1..(Len(engTokens) - 1) :
        engTokens[i + 1].start >= engTokens[i].end

\* A returned sequence with a lexical error and a token of several characters.
C11_Witness ==
    /\ phase = "done"
    /\ Len(result[1].tokens) >= 2
    /\ lexErrs # <<>>
    /\ \E i \in 1..Len(engTokens) : engTokens[i].end > engTokens[i].start + 1

\* C12: the diagnostics analyze returns are sorted by start, and of two
\* diagnostics with the same start a lexical one never follows a syntactic
\* one.
C12_DiagnosticsSorted ==
    result # None =>
        LET d == result[1].diagnostics IN
        \A i \in 1..Len(d) : \A j \in (i + 1)..Len(d) :
            /\ d[i].start <= d[j].start
            /\ d[i].start = d[j].start =>
                ~(d[i].phase = "Syntactic" /\ d[j].phase = "Lexical")

\* A result with a lexical and a syntactic diagnostic at the same start and a
\* later diagnostic behind them.
C12_Witness ==
    /\ result # None
    /\ LET d == result[1].diagnostics IN
        /\ Len(d) >= 3
        /\ \E i \in 1..Len(d) : \E j \in 1..Len(d) :
            /\ d[i].phase = "Lexical"
            /\ d[j].phase = "Syntactic"
            /\ d[i].start = d[j].start
        /\ d[Len(d)].start > d[1].start

\* The declarations a token sequence holds: the significant tokens where a
\* reserved word, an identifier and a statement terminator follow each other;
\* each is named by the offset where its terminator ends.
DeclarationEnds(toks) ==
    LET sig == Significant(toks) IN
    {sig[i + 2].end : i \in {j \in 1..(Len(sig) - 2) :
                                /\ sig[j].kind = "Keyword"
                                /\ sig[j + 1].kind = "Identifier"
                                /\ sig[j + 2].kind = "Semicolon"}}

\* C13: the returned tree is absent exactly when the input holds no
\* declaration; otherwise it is a Program whose children are exactly the
\* declarations of the input, whatever syntactic diagnostics come with it; and
\* a declaration once completed stays in the tree under construction.
C13_TreeKeepsDeclarations ==
    /\ [](result # None =>
            LET tree == result[1].tree
                ends == DeclarationEnds(result[1].tokens) IN
            /\ (tree = None) <=> (ends = {})
            /\ tree # None =>
                /\ tree[1].type = "Program"
                /\ Len(tree[1].children) = Cardinality(ends)
                /\ {tree[1].children[i].end : i \in 1..Len(tree[1].children)}
                     = ends)
    /\ [][\A i \in 1..Len(decls) : Len(decls') >= i /\ decls'[i] = decls[i]]_vars

\* A result whose tree holds a declaration although the parser reported a
\* syntactic diagnostic before it and another one after it.
C13_Witness ==
    /\ result # None
    /\ result[1].tree # None
    /\ \E i \in 1..Len(synErrs) :
        synErrs[i].end < result[1].tree[1].children[1].end
    /\ \E i \in 1..Len(synErrs) :
        synErrs[i].start >= result[1].tree[1].children[1].end

\* C14: two calls of analyze with the same source text return the same
\* tokens, diagnostics and tree, whatever calls their connections made before
\* and however the two calls were interleaved.
C14_AnalyzePure ==
    (/\ phase = "done"
     /\ suspended.phase = "done"
     /\ suspended.source = source)
        => suspended.result = result

\* Two calls with the same text have returned a result with diagnostics, one
\* of them after an earlier call on its connection.
C14_Witness ==
    /\ phase = "done"
    /\ suspended.phase = "done"
    /\ suspended.source = source
    /\ suspended.result = result
    /\ result[1].diagnostics # <<>>
    /\ calls = 2
    /\ suspended.calls = 1

\* C15: when the debounce timer fires for an empty or white-space-only code
\* value, tokens and errors become [] and parseTree becomes null, and the
\* {code} message is still sent: it is the next request on the open socket.
C15_BlankClearsAndSends ==
    [][(/\ sendTimer # None
        /\ SendTimerFire
        /\ mounted
        /\ IsBlank(sendTimer[1]))
       => (/\ tokens' = <<>>
           /\ errors' = <<>>
           /\ parseTree' = None
           /\ CanSend => outbox' = Append(outbox, sendTimer[1]))]_vars

\* The timer is due for a white-space-only buffer while results of an earlier
\* analysis are displayed and the socket is open.
C15_Witness ==
    /\ mounted
    /\ sendTimer = Some(<<" ">>)
    /\ tokens # <<>>
    /\ errors # <<>>
    /\ parseTree # None
    /\ readyState = "OPEN"
    /\ Len(outbox) + Len(inbox) < MaxInFlight

\* C16: while the component stays mounted, every close event is followed by a
\* new connection attempt (the status is CONNECTING again), however many
\* attempts have failed before; a socket closed by the error listener gets
\* there through its close event.
C16_ReconnectsAfterClose ==
    /\ (mounted /\ readyState = "CLOSED")
        ~> (~mounted \/ (wsStatus = "CONNECTING" /\ readyState = "CONNECTING"))
    /\ (mounted /\ readyState = "CLOSING")
        ~> (~mounted \/ (wsStatus = "CONNECTING" /\ readyState = "CONNECTING"))

\* The socket has closed with a send timer still pending: the reconnect
\* timer waits behind it.
C16_Witness ==
    /\ mounted
    /\ readyState = "CLOSED"
    /\ wsStatus = "DISCONNECTED"
    /\ reconnectTimer
    /\ sendTimer # None

\* C17: once the component is unmounted, connect() does not run again and no
\* reconnect timer is set.
C17_NoSocketAfterUnmount ==
    [][~mounted => (~Connect /\ (reconnectTimer' => reconnectTimer))]_vars

\* C18: while the component is mounted, connect() creates a socket only when
\* the previous one has had its close event, and a close event sets the
\* reconnect timer only when none is pending: never two live sockets, never
\* two timers.
C18_OneSocketOneTimer ==
    [][mounted => (/\ Connect => readyState = "CLOSED"
                   /\ WsClose => ~reconnectTimer)]_vars

\* A later socket of the mounted client is connecting: results received on an
\* earlier socket are still displayed.
C18_Witness ==
    /\ mounted
    /\ readyState = "CONNECTING"
    /\ wsStatus = "CONNECTING"
    /\ tokens # <<>>

StatusSteps ==
    { <<"DISCONNECTED", "CONNECTING">>,
      <<"CONNECTING", "CONNECTED">>,
      <<"CONNECTING", "DISCONNECTED">>,
      <<"CONNECTED", "DISCONNECTED">> }

\* C19: the displayed status changes only along the four steps above, and it
\* is CONNECTED only while the current socket has opened and its close event
\* has not been handled.
C19_StatusSteps ==
    /\ [][wsStatus' # wsStatus => <<wsStatus, wsStatus'>> \in StatusSteps]_vars
    /\ []((mounted /\ wsStatus = "CONNECTED")
            => readyState \in {"OPEN", "CLOSING"})

\* The status is still CONNECTED while the socket, on which results were
\* received, has started to close.
C19_Witness ==
    /\ mounted
    /\ wsStatus = "CONNECTED"
    /\ readyState = "CLOSING"
    /\ tokens # <<>>
    /\ outbox = <<>>
    /\ inbox = <<>>

\* C20: the timer callback calls send only while the socket is OPEN.
C20_SendOnlyWhenOpen ==
    [][SendTimerFire => readyState = "OPEN"]_vars

\* C21: a timer that is set is the timer of the latest triggerAnalysis call,
\* which replaces the one that was pending; and when a message leaves, it is
\* one message, it carries the code of the latest call, and no timer is left
\* pending behind it.
C21_LastCallWins ==
    [][/\ (sendTimer' # None /\ sendTimer' # sendTimer)
            => sendTimer' = lastTrigger'
       /\ (Len(outbox') > Len(outbox))
            => (/\ outbox' = Append(outbox, lastTrigger[1])
                /\ sendTimer' = None)]_vars

\* Two bursts have ended, each with one message, for two different codes; the
\* second message is the one of the latest call.
C21_Witness ==
    /\ Len(outbox) = 2
    /\ outbox[1] # outbox[2]
    /\ lastTrigger = Some(outbox[2])
    /\ sendTimer = None

\* C22: a message that is not valid JSON, or whose parsed value has no
\* readable fields, changes none of tokens, errors and parseTree; it is
\* consumed, and the messages behind it are handled as any other message.
C22_InvalidMessageIgnored ==
    [][(ReceiveMessage /\ mounted)
        => IF Readable(Head(inbox))
           THEN /\ tokens' = TokensAfter(Head(inbox), tokens)
                /\ errors' = ErrorsAfter(Head(inbox), errors)
                /\ parseTree' = ParseTreeAfter(Head(inbox), parseTree)
           ELSE /\ UNCHANGED resultVars
                /\ inbox' = Tail(inbox)]_vars

\* An invalid frame is next, with results on display and a message behind it.
C22_Witness ==
    /\ mounted
    /\ inbox # <<>>
    /\ Head(inbox) \in MalformedFrames
    /\ Len(inbox) >= 2
    /\ Readable(inbox[2])
    /\ tokens # <<>>
    /\ errors # <<>>
    /\ parseTree # None

\* C23: a message without tokens leaves tokens unchanged and one without
\* errors leaves errors unchanged; a field that is present replaces the
\* previous value, by the empty list when it is an empty array.
C23_FieldsSetWhenPresent ==
    [][(ReceiveMessage /\ mounted /\ Readable(Head(inbox)))
        => LET m == Head(inbox) IN
           /\ m.tokens = None => tokens' = tokens
           /\ m.errors = None => errors' = errors
           /\ m.tokens # None => tokens' = m.tokens[1]
           /\ m.errors # None => errors' = m.errors[1]
           /\ m.tokens = Some(<<>>) => tokens' = <<>>
           /\ m.errors = Some(<<>>) => errors' = <<>>]_vars

\* Next is a message with an empty tokens array and no errors field, while
\* tokens and errors are both displayed.
C23_Witness ==
    /\ mounted
    /\ inbox # <<>>
    /\ Head(inbox) = Message(Some(<<>>), None, None)
    /\ tokens # <<>>
    /\ errors # <<>>

\* C24: whenever the error view is shown, the Show/Hide Errors button is
\* enabled and a click on it leaves the error view.
C24_CanLeaveErrorView ==
    (mounted /\ showErrors) => (~isErrorButtonDisabled /\ ENABLED ToggleErrors)

\* The error view is shown and a message has removed every error of the
\* active phase.
C24_Witness ==
    /\ mounted
    /\ showErrors
    /\ ~hasErrors
    /\ activeTab = "tree"
    /\ errors # <<>>

\* C25: the file list is never empty and activeFileId is the id of a file in
\* the list; closing the only remaining file keeps it, with empty content.
C25_FilesNonEmptyActiveValid ==
    /\ [](Len(files) >= 1 /\ HasFile(files, activeFileId))
    /\ [][(handleCloseFile /\ Len(files) = 1)
            => files' = <<[files[1] EXCEPT !.content = <<>>]>>]_vars

\* C26: the files of the list have pairwise distinct ids.
C26_DistinctIds ==
    \A i \in 1..Len(files) : \A j \in 1..Len(files) :
        i # j => files[i].id # files[j].id

\* C27: the Tab key replaces the selection [start, end) of the active file by
\* four blanks, leaves every other file as it is and triggers the analysis of
\* the new content.
C27_TabReplacesSelection ==
    [][handleKeyDown =>
        LET content == activeFile.content IN
        \E start \in 0..Len(content) : \E end \in start..Len(content) :
            LET newContent == SubSeq(content, 1, start)
                                \o <<" ", " ", " ", " ">>
                                \o SubSeq(content, end + 1, Len(content)) IN
            /\ Len(files') = Len(files)
            /\ activeFileId' = activeFileId
            /\ ActiveFile(files', activeFileId').content = newContent
            /\ \A i \in 1..Len(files) :
                files[i] # activeFile => files'[i] = files[i]
            /\ lastTrigger' = Some(newContent)]_vars

\* C28: the label a tree node displays is its type when that is set and not
\* empty, else its data when that is, else its rule when that is, and
\* "Unknown" when none of the three is.
C28_TypeLabel ==
    typeStr # None =>
        typeStr[1] =
            IF node.type \notin {None, Some("")} THEN node.type[1]
            ELSE IF node.data \notin {None, Some("")} THEN node.data[1]
            ELSE IF node.rule \notin {None, Some("")} THEN node.rule[1]
            ELSE "Unknown"

\* A node with an empty type and two different names in data and rule is
\* displayed under its data.
C28_Witness ==
    /\ typeStr # None
    /\ node.type = Some("")
    /\ node.data = Some("start")
    /\ node.rule = Some("Program")
    /\ typeStr = Some("start")

====
